---- MODULE Spec2Model ----
(***************************************************************************)
(* Model of the virtual gamepad of src/gameplay/src/Theme.h (the Gamepad   *)
(* translation unit that starts at line 347): buttons and joysticks that   *)
(* are configured with setButton / setJoystick, driven by touch events and *)
(* rendered by draw.                                                       *)
(*                                                                         *)
(* Numbers.  Rect fields, radii and touch coordinates are small integers,  *)
(* which floats represent exactly.  A Vector2 computed from them is kept   *)
(* exactly as well:                                                        *)
(*   kind "vec"  : (x / d, y / d), d > 0                                   *)
(*   kind "ray"  : the vector of length n / d along (x, y), (x, y) # 0     *)
(*   kind "nan"  : both components NaN (0 * infinity)                      *)
(*   kind "nonfinite" : no component finite: each is infinite or NaN       *)
(* so that a normalised vector (irrational components) is still a value    *)
(* the model can compare.                                                  *)
(*                                                                         *)
(* Unassigned memory.  The constructors of Button and Joystick leave the   *)
(* Rect members unassigned, and touch and draw read them: the floats they  *)
(* read are whatever the memory holds.  Such a float is no number of the   *)
(* model.  Where draw hands it to the sprite batch the model writes        *)
(* Garbage, which stands for every float.  Where touch computes a          *)
(* displacement (dx, dy) from it, the model keeps the class of the vector  *)
(* that decides the branches of the code: the value the float expression   *)
(* (dx * dx) + (dy * dy) has, rounding and underflow included, against the *)
(* squares of the radii.                                                   *)
(*   kind "tinyvec" : a finite vector whose squared length is 0 as the     *)
(*                    floats compute it (underflow), and that is not known *)
(*                    to be (0, 0)                                         *)
(*   kind "somevec" : a finite vector whose squared length, as the floats  *)
(*                    compute it, is above (m / d)^2 and at most (n / d)^2 *)
(*   kind "farvec"  : the same, with a squared length above (n / d)^2      *)
(*   kind "someray" : a vector that normalize and scale have given the     *)
(*                    length n / d, in some direction                      *)
(* Each of these stands for every vector it describes; the length of a     *)
(* "somevec" can be a rounding error above n / d.                           *)
(*                                                                         *)
(* unsigned int.  A value of the 32 bit type is kept as two halves of 16   *)
(* bits, [hi, lo] for hi * 2^16 + lo.                                      *)
(***************************************************************************)
EXTENDS Integers, FiniteSets, Sequences, TLC

VARIABLES
    buttons,    \* _buttons: index -> Button
    joysticks,  \* _joysticks: index -> Joystick
    out         \* what the last call returned or drew

vars == <<buttons, joysticks, out>>

---------------------------------------------------------------------------
(* Bounds of the model *)

\* The largest number of buttons / joysticks given to the constructor.
ButtonCount == 1
JoystickCount == 1
\* Touch coordinates x, y range over 0 .. MaxCoord.
MaxCoord == 2
\* Radii given to setJoystick range over -MaxRadius .. MaxRadius.
MaxRadius == 1
\* Width and height of the gamepad texture (Texture::getWidth / getHeight).
TexW == 2
TexH == 2
\* Size of the _touches array (Gamepad.h).
MAX_TOUCH_INPUTS == 2

(* Program constants *)

\* Width of unsigned int in bits.
UIntBits == 32

\* An unsigned int is kept in two halves of LimbBits bits.
LimbBits == UIntBits \div 2
LimbModulus == 2 ^ LimbBits

\* The unsigned int hi * LimbModulus + lo.
UInt(hi, lo) == [hi |-> hi, lo |-> lo]

\* Conversion of an int to unsigned int, as in _contactIndex = -1: the value
\* modulo 2^UIntBits.
ToUnsigned(n) == UInt((n \div LimbModulus) % LimbModulus, n % LimbModulus)

\* The value of an unsigned int that is below 2^31, as an integer: the
\* position of an array element.
IndexOf(u) == u.hi * LimbModulus + u.lo

\* a < b, a <= b of unsigned int.
ULess(a, b) == a.hi < b.hi \/ (a.hi = b.hi /\ a.lo < b.lo)
ULessEq(a, b) == a = b \/ ULess(a, b)

\* #define INVALID_CONTACT_INDEX ((unsigned int)-1)
INVALID_CONTACT_INDEX == ToUnsigned(-1)

BUTTON_PRESSED == "BUTTON_PRESSED"
BUTTON_RELEASED == "BUTTON_RELEASED"

TOUCH_PRESS == "TOUCH_PRESS"
TOUCH_RELEASE == "TOUCH_RELEASE"
TOUCH_MOVE == "TOUCH_MOVE"
TouchEvents == {TOUCH_PRESS, TOUCH_RELEASE, TOUCH_MOVE}

\* A null Rect* argument.
NULL == [null |-> TRUE]

---------------------------------------------------------------------------
(* Vector2 *)

Abs(n) == IF n < 0 THEN -n ELSE n

RECURSIVE GCD(_, _)
GCD(a, b) == IF b = 0 THEN a ELSE GCD(b, a % b)

Vec(x, y, d) == [kind |-> "vec", x |-> x, y |-> y, n |-> 1, d |-> d]

\* The vector of length n / d along (x, y); the direction is kept in lowest
\* terms so that equal vectors are equal values.
Ray(x, y, n, d) ==
    LET g == GCD(Abs(x), Abs(y))
        h == GCD(n, d)
    IN  [kind |-> "ray", x |-> x \div g, y |-> y \div g, n |-> n \div h, d |-> d \div h]

NaNVec == [kind |-> "nan", x |-> 0, y |-> 0, n |-> 0, d |-> 0]
NonFiniteVec == [kind |-> "nonfinite", x |-> 0, y |-> 0, n |-> 0, d |-> 0]

\* Vector2::zero(), Vector2::set(0.0f, 0.0f)
VecZero == Vec(0, 0, 1)

IsZeroVec(v) == v.kind = "vec" /\ v.x = 0 /\ v.y = 0

\* Vectors computed from a float of unassigned memory.
\* Some finite vector whose squared length underflows to 0.
TinyVec == [kind |-> "tinyvec", n |-> 0, d |-> 1]
\* Some finite vector with a squared length above (m / d)^2 and at most
\* (n / d)^2, as the floats compute it.
SomeVec(m, n, d) == [kind |-> "somevec", m |-> m, n |-> n, d |-> d]
\* Some finite vector with a squared length above (n / d)^2.
FarVec(n, d) == [kind |-> "farvec", n |-> n, d |-> d]
\* Some vector of length n / d, n > 0; the length is kept in lowest terms.
SomeRay(n, d) ==
    LET h == GCD(n, d)
    IN  [kind |-> "someray", n |-> n \div h, d |-> d \div h]

\* Vector2::set(v.x, -v.y); a class of vectors holds the mirror image of
\* each of its vectors.
FlipY(v) == IF v.kind \in {"vec", "ray"} THEN [v EXCEPT !.y = -v.y] ELSE v

\* Vector2::normalize: a vector whose length comes out as zero is left as
\* it is, any other finite vector becomes the unit vector of its direction.
Normalize(v) ==
    CASE v.kind = "vec" -> IF IsZeroVec(v) THEN v ELSE Ray(v.x, v.y, 1, 1)
      [] v.kind = "ray" -> Ray(v.x, v.y, 1, 1)
      [] v.kind \in {"somevec", "farvec", "someray"} -> SomeRay(1, 1)
      [] OTHER -> v

\* Vector2::scale by the float sn / sd; sd = 0 stands for 1.0f / 0.0f = +inf.
\* 0 * inf is NaN and x * inf is infinite for every other finite x.
Scale(v, sn, sd) ==
    CASE v.kind = "vec" ->
           IF sd = 0
           THEN (IF IsZeroVec(v) THEN NaNVec ELSE NonFiniteVec)
           ELSE Vec(v.x * sn, v.y * sn, v.d * sd)
      [] v.kind = "ray" ->
           IF sd = 0 THEN NonFiniteVec
           ELSE IF sn = 0 THEN VecZero
           ELSE IF sn > 0 THEN Ray(v.x, v.y, v.n * sn, v.d * sd)
           ELSE Ray(-v.x, -v.y, v.n * (-sn), v.d * sd)
      [] v.kind = "tinyvec" ->
           IF sd = 0 THEN NonFiniteVec
           ELSE IF sn = 0 THEN VecZero
           ELSE TinyVec
      [] v.kind = "somevec" ->
           IF sd = 0 THEN NonFiniteVec
           ELSE IF sn = 0 THEN VecZero
           ELSE SomeVec(v.m * Abs(sn), v.n * Abs(sn), v.d * sd)
      [] v.kind = "farvec" ->
           IF sd = 0 THEN NonFiniteVec
           ELSE IF sn = 0 THEN VecZero
           ELSE FarVec(v.n * Abs(sn), v.d * sd)
      [] v.kind = "someray" ->
           IF sd = 0 THEN NonFiniteVec
           ELSE IF sn = 0 THEN VecZero
           ELSE SomeRay(v.n * Abs(sn), v.d * sd)
      [] OTHER -> v

\* 1.0f / radius as a pair <<numerator, denominator>> with denominator >= 0.
Reciprocal(r) == IF r < 0 THEN <<-1, -r>> ELSE <<1, r>>

\* (x * x) + (y * y) <= (radius * radius) for the components of v, as the
\* floats compute it.  The squares of small integers are exact.  The squared
\* length of a vector from unassigned memory is known by its class: 0 for a
\* "tinyvec", whose squares underflow, so that the test holds for every
\* radius, 0 included; for a "somevec" and a "farvec" the class is bounded
\* by squares of radii, so that the test is decided for the radii
\* -MaxRadius .. MaxRadius.
WithinRadius(v, radius) ==
    CASE v.kind = "vec" -> v.x * v.x + v.y * v.y <= radius * radius * v.d * v.d
      [] v.kind = "ray" -> v.n * v.n <= radius * radius * v.d * v.d
      [] v.kind = "tinyvec" -> TRUE
      [] v.kind = "somevec" -> v.n * v.n <= radius * radius * v.d * v.d
      [] v.kind = "someray" -> v.n * v.n <= radius * radius * v.d * v.d
      [] OTHER -> FALSE

\* |v| <= r for every vector v stands for, r an integer.  A "tinyvec" is
\* longer than 0, and a "somevec" can be a rounding error longer than n / d.
LengthAtMost(v, r) ==
    CASE v.kind = "vec" -> r >= 0 /\ v.x * v.x + v.y * v.y <= r * r * v.d * v.d
      [] v.kind = "ray" -> v.n <= r * v.d
      [] v.kind = "tinyvec" -> r > 0
      [] v.kind = "somevec" -> v.n < r * v.d
      [] v.kind = "someray" -> v.n <= r * v.d
      [] OTHER -> FALSE

\* |v| <= 1
LengthAtMostOne(v) == LengthAtMost(v, 1)

---------------------------------------------------------------------------
(* Rect, TexCoord *)

Rect(x, y, w, h) == [x |-> x, y |-> y, width |-> w, height |-> h]

\* The texture coordinates setButton / setJoystick compute from a texture
\* region.  u is kept as a numerator over TexW and v as one over TexH.
TexCoordOf(r) ==
    LET u1 == r.x
        v1 == TexH - r.y
    IN  [u1 |-> u1, v1 |-> v1, u2 |-> u1 + r.width, v2 |-> v1 - r.height]

\* A Rect or TexCoord member the constructors leave unassigned
\* (Button::Button and Joystick::Joystick initialise neither).
Uninit == [uninit |-> TRUE]

\* A float read from an unassigned member: whatever the memory holds.  It
\* stands for every float, NaN and the infinities included.
Garbage == [garbage |-> TRUE]

\* Stands for the memory behind a member that is assigned: nothing is read
\* from it.
NoGarbage == [assigned |-> TRUE]

---------------------------------------------------------------------------
(* Construction *)

\* The positions of the elements of _buttons / _joysticks: 0 .. count - 1.
ButtonIds == DOMAIN buttons
JoystickIds == DOMAIN joysticks

\* Gamepad::Button::Button()
NewButton ==
    [region |-> Uninit,
     defaultTexCoord |-> Uninit,
     focusTexCoord |-> Uninit,
     pressed |-> BUTTON_RELEASED,
     defaultTextureEnabled |-> FALSE,
     focusTextureEnabled |-> FALSE,
     contactIndex |-> INVALID_CONTACT_INDEX]

\* Gamepad::Joystick::Joystick()
NewJoystick ==
    [regionInner |-> Uninit,
     regionOuter |-> Uninit,
     defaultTexCoordInner |-> Uninit,
     defaultTexCoordOuter |-> Uninit,
     radius |-> 0,
     displacement |-> VecZero,
     direction |-> VecZero,
     defaultTextureInnerEnabled |-> FALSE,
     defaultTextureOuterEnabled |-> FALSE,
     contactIndex |-> INVALID_CONTACT_INDEX]

\* The result of a call that returns nothing.
Void == [kind |-> "void"]
\* A failed assert: the program is aborted.
AssertFailed == [kind |-> "assert"]

NoAccess == [b |-> {}, j |-> {}]

\* The gamepad as the calls below see it.
Gamepad == [buttons |-> buttons, joysticks |-> joysticks]

\* _buttonCount and _joystickCount, which the constructor sets to the sizes
\* of the arrays it allocates.
ButtonCountOf(g) == ToUnsigned(Cardinality(DOMAIN g.buttons))
JoystickCountOf(g) == ToUnsigned(Cardinality(DOMAIN g.joysticks))

\* Gamepad::Gamepad(texturePath, joysticks, buttons)
NewGamepad(joystickCount, buttonCount) ==
    /\ buttons = [i \in 0 .. (buttonCount - 1) |-> NewButton]
    /\ joysticks = [i \in 0 .. (joystickCount - 1) |-> NewJoystick]
    /\ out = Void

\* A gamepad with joysticks and buttons, one with buttons only and one with
\* joysticks only.
Init == NewGamepad(JoystickCount, ButtonCount)
InitButton == NewGamepad(0, ButtonCount)
InitJoystick == NewGamepad(JoystickCount, 0)

\* What a call does: g is the gamepad it leaves, out what it returned or drew
\* and accessed the indices of _buttons (b) and _joysticks (j) it accessed.
Outcome(g, o, a) == [g |-> g, out |-> o, accessed |-> a]

\* A call whose assertion fails: the program is aborted there, nothing of
\* the gamepad having been read or written.
Aborted(g) == Outcome(g, AssertFailed, NoAccess)

\* IndexAssert with an off-by-one bound: the first index beyond the array passes.
IndexAssertOffByOne(index, count) == ULessEq(index, count)

\* assert(index < count)
IndexAssert(index, count) == ULess(index, count)

\* Whether the unsigned int index is the index of an element of array.
InArray(array, index) == ULess(index, ToUnsigned(Cardinality(DOMAIN array)))

\* A write of value to element index of an array of the gamepad; a write
\* beyond the array hits foreign memory and changes none of its objects.
StoreAt(array, index, value) ==
    IF InArray(array, index) THEN [array EXCEPT ![IndexOf(index)] = value] ELSE array

\* A read of element index of an array of the gamepad; beyond the array it
\* yields an object that is none of the gamepad's.
LoadAt(array, index, foreign) ==
    IF InArray(array, index) THEN array[IndexOf(index)] ELSE foreign

\* The indices a loop for (i = 0; i < count; ++i) visits.
LoopIndices(count) == {ToUnsigned(n) : n \in 0 .. (IndexOf(count) - 1)}

---------------------------------------------------------------------------
(* setButton, getButtonState *)

\* The body of setButton after its assertion, on button b.
SetButtonBody(b, bounds, defaultTextureRegion, focusTextureRegion) ==
    LET b1 == IF bounds # NULL THEN [b EXCEPT !.region = bounds] ELSE b
        b2 == IF defaultTextureRegion # NULL
              THEN [b1 EXCEPT !.defaultTexCoord = TexCoordOf(defaultTextureRegion),
                              !.defaultTextureEnabled = TRUE]
              ELSE b1
    IN  IF focusTextureRegion # NULL
        THEN [b2 EXCEPT !.focusTexCoord = TexCoordOf(focusTextureRegion),
                        !.focusTextureEnabled = TRUE]
        ELSE b2

SetButtonOp(g, buttonId, bounds, defaultTextureRegion, focusTextureRegion) ==
    IF ~IndexAssert(buttonId, ButtonCountOf(g))
    THEN Aborted(g)
    ELSE Outcome([g EXCEPT !.buttons =
                     StoreAt(g.buttons, buttonId,
                             SetButtonBody(LoadAt(g.buttons, buttonId, NewButton), bounds,
                                           defaultTextureRegion, focusTextureRegion))],
                 Void,
                 [b |-> {buttonId}, j |-> {}])

GetButtonStateOp(g, index) ==
    IF ~IndexAssert(index, ButtonCountOf(g))
    THEN Aborted(g)
    ELSE Outcome(g,
                 [kind |-> "ButtonState", value |-> LoadAt(g.buttons, index, NewButton).pressed],
                 [b |-> {index}, j |-> {}])

---------------------------------------------------------------------------
(* setJoystick, isJoystickActive, getJoystickState *)

\* The body of setJoystick after its assertion, on joystick j.
SetJoystickBody(j, regionInner, textureRegionInner, regionOuter, textureRegionOuter, radius) ==
    LET j0 == [j EXCEPT !.radius = radius]
        j1 == IF regionInner # NULL THEN [j0 EXCEPT !.regionInner = regionInner] ELSE j0
        j2 == IF textureRegionInner # NULL
              THEN [j1 EXCEPT !.defaultTexCoordInner = TexCoordOf(textureRegionInner),
                              !.defaultTextureInnerEnabled = TRUE]
              ELSE j1
        j3 == IF regionOuter # NULL THEN [j2 EXCEPT !.regionOuter = regionOuter] ELSE j2
    IN  IF textureRegionOuter # NULL
        THEN [j3 EXCEPT !.defaultTexCoordOuter = TexCoordOf(textureRegionOuter),
                        !.defaultTextureOuterEnabled = TRUE]
        ELSE j3

SetJoystickOp(g, joystickId, regionInner, textureRegionInner, regionOuter, textureRegionOuter, radius) ==
    IF ~IndexAssert(joystickId, JoystickCountOf(g))
    THEN Aborted(g)
    ELSE Outcome([g EXCEPT !.joysticks =
                     StoreAt(g.joysticks, joystickId,
                             SetJoystickBody(LoadAt(g.joysticks, joystickId, NewJoystick),
                                             regionInner, textureRegionInner,
                                             regionOuter, textureRegionOuter, radius))],
                 Void,
                 [b |-> {}, j |-> {joystickId}])

IsJoystickActiveOp(g, index) ==
    IF ~IndexAssert(index, JoystickCountOf(g))
    THEN Aborted(g)
    ELSE Outcome(g,
                 [kind |-> "bool",
                  value |-> LoadAt(g.joysticks, index, NewJoystick).contactIndex
                                # INVALID_CONTACT_INDEX],
                 [b |-> {}, j |-> {index}])

GetJoystickStateOp(g, index) ==
    IF ~IndexAssert(index, JoystickCountOf(g))
    THEN Aborted(g)
    ELSE Outcome(g,
                 [kind |-> "Vector2", value |-> LoadAt(g.joysticks, index, NewJoystick).direction],
                 [b |-> {}, j |-> {index}])

---------------------------------------------------------------------------
(* touch *)

\* ButtonHit with the region's edges outside.
ButtonHitOpen(region, x, y) ==
    /\ x > region.x
    /\ x < region.x + region.width
    /\ y > region.y
    /\ y < region.y + region.height

\* The hit test of a button: the region's edges are inside.
ButtonHit(region, x, y) ==
    /\ x >= region.x
    /\ x <= region.x + region.width
    /\ y >= region.y
    /\ y <= region.y + region.height

\* The hit test of button b at (x, y).  On an unassigned region the test is
\* made on the floats the memory holds, and reading is its result.
ButtonHitOf(b, x, y, reading) ==
    IF b.region = Uninit THEN reading ELSE ButtonHit(b.region, x, y)

\* TouchButton with a TOUCH_RELEASE that does not compare the contact index.
TouchButtonAnyRelease(b, hit, touchEvent, contactIndex) ==
    CASE touchEvent = TOUCH_PRESS ->
           IF b.contactIndex = INVALID_CONTACT_INDEX /\ hit
           THEN [b EXCEPT !.contactIndex = contactIndex, !.pressed = BUTTON_PRESSED]
           ELSE b
      [] touchEvent = TOUCH_RELEASE ->
           [b EXCEPT !.contactIndex = ToUnsigned(-1), !.pressed = BUTTON_RELEASED]
      [] OTHER -> b

\* One pass of the button loop of touch, on button b; hit is the result of
\* the hit test.
TouchButton(b, hit, touchEvent, contactIndex) ==
    CASE touchEvent = TOUCH_PRESS ->
           IF b.contactIndex = INVALID_CONTACT_INDEX /\ hit
           THEN [b EXCEPT !.contactIndex = contactIndex, !.pressed = BUTTON_PRESSED]
           ELSE b
      [] touchEvent = TOUCH_RELEASE ->
           IF b.contactIndex = contactIndex
           THEN [b EXCEPT !.contactIndex = ToUnsigned(-1), !.pressed = BUTTON_RELEASED]
           ELSE b
      [] OTHER -> b

\* The hit test of a joystick on TOUCH_PRESS: the square of half side _radius
\* around the position of the inner region.
JoystickHit(regionInner, radius, x, y) ==
    LET bx == regionInner.x
        by == regionInner.y
    IN  /\ x >= bx - radius
        /\ x <= bx + radius
        /\ y >= by - radius
        /\ y <= by + radius

\* The hit test of joystick j at (x, y), and the displacement of (x, y) from
\* the position of its inner region.  On an unassigned inner region both are
\* computed from the floats bx, by the memory holds: reading.hit is the
\* result of the test and reading.displacement the vector (x - bx, y - by).
JoystickHitOf(j, x, y, reading) ==
    IF j.regionInner = Uninit
    THEN reading.hit
    ELSE JoystickHit(j.regionInner, j.radius, x, y)

DisplacementOf(j, x, y, reading) ==
    IF j.regionInner = Uninit
    THEN reading.displacement
    ELSE Vec(x - j.regionInner.x, y - j.regionInner.y, 1)

\* The direction vector touch computes from a displacement and the radius.
Direction(displacement, radius) ==
    IF WithinRadius(displacement, radius)
    THEN Scale(FlipY(displacement), Reciprocal(radius)[1], Reciprocal(radius)[2])
    ELSE Normalize(Scale(Normalize(FlipY(displacement)), radius, 1))

\* case Touch::TOUCH_MOVE of the joystick loop (TOUCH_PRESS falls through to it).
TouchJoystickMove(j, displacement, contactIndex) ==
    IF j.contactIndex = contactIndex
    THEN [j EXCEPT !.direction = Direction(displacement, j.radius),
                   !.displacement = displacement]
    ELSE j

\* case Touch::TOUCH_PRESS of the joystick loop, up to the fall through.
TouchJoystickPress(j, hit, contactIndex) ==
    IF hit /\ j.contactIndex = INVALID_CONTACT_INDEX
    THEN [j EXCEPT !.contactIndex = contactIndex,
                   !.displacement = VecZero,
                   !.direction = VecZero]
    ELSE j

\* TouchJoystick with a TOUCH_RELEASE that leaves the direction as it is.
TouchJoystickKeepDirection(j, hit, displacement, touchEvent, contactIndex) ==
    CASE touchEvent = TOUCH_PRESS ->
           TouchJoystickMove(TouchJoystickPress(j, hit, contactIndex),
                             displacement, contactIndex)
      [] touchEvent = TOUCH_MOVE ->
           TouchJoystickMove(j, displacement, contactIndex)
      [] touchEvent = TOUCH_RELEASE ->
           IF j.contactIndex = contactIndex
           THEN [j EXCEPT !.contactIndex = ToUnsigned(-1),
                          !.displacement = VecZero]
           ELSE j
      [] OTHER -> j

\* One pass of the joystick loop of touch, on joystick j; hit is the result
\* of the hit test and displacement the touch point's displacement from the
\* position of the inner region.
TouchJoystick(j, hit, displacement, touchEvent, contactIndex) ==
    CASE touchEvent = TOUCH_PRESS ->
           TouchJoystickMove(TouchJoystickPress(j, hit, contactIndex),
                             displacement, contactIndex)
      [] touchEvent = TOUCH_MOVE ->
           TouchJoystickMove(j, displacement, contactIndex)
      [] touchEvent = TOUCH_RELEASE ->
           IF j.contactIndex = contactIndex
           THEN [j EXCEPT !.contactIndex = ToUnsigned(-1),
                          !.displacement = VecZero,
                          !.direction = VecZero]
           ELSE j
      [] OTHER -> j

\* TouchIgnored that lets the contact index MAX_TOUCH_INPUTS through.
TouchIgnoredAbove(contactIndex) == ULess(ToUnsigned(MAX_TOUCH_INPUTS), contactIndex)

\* if (contactIndex >= MAX_TOUCH_INPUTS) return;
TouchIgnored(contactIndex) == ULessEq(ToUnsigned(MAX_TOUCH_INPUTS), contactIndex)

\* touch(x, y, touchEvent, contactIndex); gb[i] and gj[i] are what the call
\* gets from the memory behind the region of button i and the inner region
\* of joystick i when the member is unassigned.
TouchOp(g, x, y, touchEvent, contactIndex, gb, gj) ==
    LET bi == LoopIndices(ButtonCountOf(g))
        ji == LoopIndices(JoystickCountOf(g))
    IN  IF TouchIgnored(contactIndex)
        THEN Outcome(g, Void, NoAccess)
        ELSE Outcome([buttons |-> [i \in DOMAIN g.buttons |->
                                     IF ToUnsigned(i) \in bi
                                     THEN TouchButton(g.buttons[i],
                                                      ButtonHitOf(g.buttons[i], x, y, gb[i]),
                                                      touchEvent, contactIndex)
                                     ELSE g.buttons[i]],
                      joysticks |-> [i \in DOMAIN g.joysticks |->
                                       IF ToUnsigned(i) \in ji
                                       THEN TouchJoystick(g.joysticks[i],
                                                          JoystickHitOf(g.joysticks[i], x, y, gj[i]),
                                                          DisplacementOf(g.joysticks[i], x, y, gj[i]),
                                                          touchEvent, contactIndex)
                                       ELSE g.joysticks[i]]],
                     Void,
                     [b |-> bi, j |-> ji])

---------------------------------------------------------------------------
(* draw *)

\* No call of SpriteBatch::draw.
NoSprite == [none |-> TRUE]

\* SpriteBatch::draw(x, y, width, height, u1, v1, u2, v2, color) with
\* x = (x2 / 2) + off.x and y = (y2 / 2) + off.y: positions are kept doubled
\* because the joggles are moved by half their size, and off is the part of
\* the position that normalize may make irrational.  x2, y2, width and
\* height are Garbage when they come from an unassigned region.
Sprite(x2, y2, off, width, height, tex) ==
    [x2 |-> x2, y2 |-> y2, off |-> off, width |-> width, height |-> height, tex |-> tex]

\* The sprite of a button: its region with the texture coordinates tex.
ButtonSprite(region, tex) ==
    IF region = Uninit
    THEN Sprite(Garbage, Garbage, VecZero, Garbage, Garbage, tex)
    ELSE Sprite(2 * region.x, 2 * region.y, VecZero, region.width, region.height, tex)

\* DrawButton that tests the default texture first.
DrawButtonDefaultFirst(b) ==
    IF b.defaultTextureEnabled
    THEN <<ButtonSprite(b.region, b.defaultTexCoord)>>
    ELSE IF b.pressed = BUTTON_PRESSED /\ b.focusTextureEnabled
    THEN <<ButtonSprite(b.region, b.focusTexCoord)>>
    ELSE <<>>

\* One pass of the button loop of draw, for button b: the sprites it hands
\* to the sprite batch, in order.
DrawButton(b) ==
    IF b.pressed = BUTTON_PRESSED /\ b.focusTextureEnabled
    THEN <<ButtonSprite(b.region, b.focusTexCoord)>>
    ELSE IF b.defaultTextureEnabled
    THEN <<ButtonSprite(b.region, b.defaultTexCoord)>>
    ELSE <<>>

\* x = x - (width * 0.5f); y = y - (height * 0.5f), doubled.
JogglePosition(region) ==
    [x2 |-> 2 * region.x - region.width, y2 |-> 2 * region.y - region.height]

\* The sprite of a joggle: its region, moved by off and by half its size,
\* with the texture coordinates tex.
JoggleSprite(region, off, tex) ==
    IF region = Uninit
    THEN Sprite(Garbage, Garbage, off, Garbage, Garbage, tex)
    ELSE Sprite(JogglePosition(region).x2, JogglePosition(region).y2, off,
                region.width, region.height, tex)

\* The outer joggle of joystick j.
DrawOuter(j) ==
    IF j.defaultTextureOuterEnabled
    THEN JoggleSprite(j.regionOuter, VecZero, j.defaultTexCoordOuter)
    ELSE NoSprite

\* How far draw moves the inner joggle from the inner region's position.
InnerOffset(displacement, radius) ==
    IF WithinRadius(displacement, radius)
    THEN displacement
    ELSE Scale(Normalize(displacement), radius, 1)

\* The inner joggle of joystick j.
DrawInner(j) ==
    IF j.defaultTextureInnerEnabled
    THEN JoggleSprite(j.regionInner, InnerOffset(j.displacement, j.radius),
                      j.defaultTexCoordInner)
    ELSE NoSprite

\* draw(color)
DrawOp(g) ==
    Outcome(g,
            [kind |-> "sprites",
             buttons |-> [i \in {IndexOf(u) : u \in LoopIndices(ButtonCountOf(g))} |->
                            DrawButton(LoadAt(g.buttons, ToUnsigned(i), NewButton))],
             outer |-> [i \in {IndexOf(u) : u \in LoopIndices(JoystickCountOf(g))} |->
                          DrawOuter(LoadAt(g.joysticks, ToUnsigned(i), NewJoystick))],
             inner |-> [i \in {IndexOf(u) : u \in LoopIndices(JoystickCountOf(g))} |->
                          DrawInner(LoadAt(g.joysticks, ToUnsigned(i), NewJoystick))]],
            [b |-> LoopIndices(ButtonCountOf(g)), j |-> LoopIndices(JoystickCountOf(g))])

---------------------------------------------------------------------------
(* What touch gets from unassigned memory *)

\* The displacement (x - bx, y - by) of a touch point from a position
\* (bx, by) of finite floats: every finite vector.  The classes the model
\* tells apart are (0, 0), a vector whose squared length underflows to 0, a
\* squared length above (k - 1)^2 and at most k^2 for k in 1 .. MaxRadius,
\* and one above MaxRadius^2: they decide the comparison of the squared
\* length with the square of every radius of -MaxRadius .. MaxRadius.
SomeDisplacements ==
    {VecZero, TinyVec}
      \cup {SomeVec(k - 1, k, 1) : k \in 1 .. MaxRadius}
      \cup {FarVec(MaxRadius, 1)}

\* Whether some vector v stands for passes the hit test of a joystick,
\* x >= bx - radius, x <= bx + radius and the same for y.  A negative radius
\* leaves no point between the two bounds, and a radius of 0 only the point
\* (bx, by) itself.  Otherwise the length of a vector is at least its
\* larger component (a vector along an axis) and at most sqrt(2) times it
\* (a diagonal).
CanHit(v, radius) ==
    /\ radius >= 0
    /\ CASE v.kind = "vec" -> Abs(v.x) <= radius * v.d /\ Abs(v.y) <= radius * v.d
         [] v.kind = "tinyvec" -> radius > 0
         [] v.kind = "somevec" -> v.m * v.m < 2 * radius * radius * v.d * v.d
         [] v.kind = "farvec" -> v.n * v.n < 2 * radius * radius * v.d * v.d
         [] OTHER -> FALSE

\* What a call of touch at one point gets from an unassigned inner region of
\* a joystick with the given radius: the result of the hit test and, on a
\* hit, the displacement.  Every radius has memory that fails the test, and
\* a miss uses no displacement.  Memory that holds a NaN or an infinity
\* fails the hit test; a joystick with such memory is never bound, and touch
\* stores a displacement for a bound joystick only, so the displacement of
\* such memory is never used.
JoystickReadings(radius) ==
    {[hit |-> FALSE, displacement |-> VecZero]}
      \cup {[hit |-> TRUE, displacement |-> v] :
              v \in {w \in SomeDisplacements : CanHit(w, radius)}}

\* A touch call whose outcome takes nothing from the memory behind a region
\* (a release, a move of a contact that holds nothing, an ignored contact)
\* has one outcome whatever the memory holds, and one reading stands for all.
UnusedHit == FALSE
UnusedReading == [hit |-> FALSE, displacement |-> VecZero]

\* What a call of touch gets from the memory behind the region of button b:
\* the result of the hit test of a press on the unbound button, which the
\* floats the memory holds can make either.
ButtonGarbage(b, touchEvent, contactIndex) ==
    IF b.region # Uninit
    THEN {NoGarbage}
    ELSE IF /\ ~TouchIgnored(contactIndex)
            /\ touchEvent = TOUCH_PRESS
            /\ b.contactIndex = INVALID_CONTACT_INDEX
    THEN BOOLEAN
    ELSE {UnusedHit}

\* What a call of touch gets from the memory behind the inner region of
\* joystick j: a press on the unbound joystick gets the result of the hit
\* test and, on a hit, the displacement; a press or a move of the contact
\* that holds the joystick gets the displacement.
JoystickGarbage(j, touchEvent, contactIndex) ==
    IF j.regionInner # Uninit
    THEN {NoGarbage}
    ELSE IF /\ ~TouchIgnored(contactIndex)
            /\ touchEvent = TOUCH_PRESS
            /\ j.contactIndex = INVALID_CONTACT_INDEX
    THEN JoystickReadings(j.radius)
    ELSE IF /\ ~TouchIgnored(contactIndex)
            /\ touchEvent \in {TOUCH_PRESS, TOUCH_MOVE}
            /\ j.contactIndex = contactIndex
    THEN {[hit |-> FALSE, displacement |-> v] : v \in SomeDisplacements}
    ELSE {UnusedReading}

\* The functions that choose one value of choices[i] for every i.
RECURSIVE ChoicesUpTo(_, _)
ChoicesUpTo(choices, n) ==
    IF n = 0
    THEN {<<>>}
    ELSE {f @@ ((n - 1) :> v) : f \in ChoicesUpTo(choices, n - 1), v \in choices[n - 1]}

ChoicesOf(choices) == ChoicesUpTo(choices, Cardinality(DOMAIN choices))

\* What a call of touch on gamepad g may get from unassigned memory, for
\* every button and for every joystick; each call reads the memory anew.
ButtonsGarbage(g, touchEvent, contactIndex) ==
    ChoicesOf([i \in DOMAIN g.buttons |->
                 ButtonGarbage(g.buttons[i], touchEvent, contactIndex)])
JoysticksGarbage(g, touchEvent, contactIndex) ==
    ChoicesOf([i \in DOMAIN g.joysticks |->
                 JoystickGarbage(g.joysticks[i], touchEvent, contactIndex)])

---------------------------------------------------------------------------
(* The calls a program makes on the gamepad *)

\* A call is made while the program runs, and leaves its outcome.
Call(outcome) ==
    /\ out # AssertFailed
    /\ buttons' = outcome.g.buttons
    /\ joysticks' = outcome.g.joysticks
    /\ out' = outcome.out

\* Arguments of the calls.
Coords == 0 .. MaxCoord
Radii == (-MaxRadius) .. MaxRadius
\* In range, the first index out of range, the first value beyond 16 bits and
\* the invalid index.
ContactIndices ==
    {ToUnsigned(n) : n \in 0 .. MAX_TOUCH_INPUTS}
      \cup {ToUnsigned(LimbModulus), INVALID_CONTACT_INDEX}
ButtonIndexArgs == {ToUnsigned(n) : n \in 0 .. ButtonCount}
JoystickIndexArgs == {ToUnsigned(n) : n \in 0 .. JoystickCount}
BoundsArgs == {NULL, Rect(0, 0, 1, 1), Rect(1, 1, 1, 0)}
InnerArgs == {NULL, Rect(1, 1, 2, 2)}
OuterArgs == {NULL, Rect(0, 0, 1, 1)}
\* A region inside the texture and one that leaves it.
TextureArgs == {NULL, Rect(0, 0, 1, 1), Rect(1, 1, TexW, TexH)}
JoystickTextureArgs == {NULL, Rect(0, 0, 1, 1)}

\* setButton with a region only (no texture), and with every argument.
setButtonRegion ==
    \E id \in ButtonIndexArgs, b \in BoundsArgs :
        Call(SetButtonOp(Gamepad, id, b, NULL, NULL))

setButton ==
    \E id \in ButtonIndexArgs, b \in BoundsArgs, d \in TextureArgs, f \in TextureArgs :
        Call(SetButtonOp(Gamepad, id, b, d, f))

\* setJoystick with an inner region and a radius only, and with every argument.
setJoystickRegion ==
    \E id \in JoystickIndexArgs, ri \in InnerArgs, r \in Radii :
        Call(SetJoystickOp(Gamepad, id, ri, NULL, NULL, NULL, r))

setJoystick ==
    \E id \in JoystickIndexArgs, ri \in InnerArgs, ti \in JoystickTextureArgs,
       ro \in OuterArgs, to \in JoystickTextureArgs, r \in Radii :
        Call(SetJoystickOp(Gamepad, id, ri, ti, ro, to, r))

getButtonState == \E id \in ButtonIndexArgs : Call(GetButtonStateOp(Gamepad, id))

isJoystickActive == \E id \in JoystickIndexArgs : Call(IsJoystickActiveOp(Gamepad, id))

getJoystickState == \E id \in JoystickIndexArgs : Call(GetJoystickStateOp(Gamepad, id))

touch ==
    \E e \in TouchEvents, c \in ContactIndices :
      \E gb \in ButtonsGarbage(Gamepad, e, c), gj \in JoysticksGarbage(Gamepad, e, c) :
        \E x \in Coords, y \in Coords :
          Call(TouchOp(Gamepad, x, y, e, c, gb, gj))

draw == Call(DrawOp(Gamepad))

\* Every call of the interface, on a gamepad with buttons and joysticks and
\* without textures.
Next ==
    \/ setButtonRegion
    \/ getButtonState
    \/ setJoystickRegion
    \/ isJoystickActive
    \/ getJoystickState
    \/ touch
    \/ draw

Spec == Init /\ [][Next]_vars

\* A gamepad of buttons only: configured with every argument of setButton,
\* touched, read and drawn.
NextButton ==
    \/ setButton
    \/ getButtonState
    \/ touch
    \/ draw

SpecButton == InitButton /\ [][NextButton]_vars

\* A gamepad of joysticks only: configured with setJoystick, touched, read
\* and drawn.
NextJoystick ==
    \/ setJoystick
    \/ isJoystickActive
    \/ getJoystickState
    \/ touch
    \/ draw

SpecJoystick == InitJoystick /\ [][NextJoystick]_vars

---------------------------------------------------------------------------
(* Properties *)

\* The contact indices touch acts on.
ValidContacts == {ToUnsigned(n) : n \in 0 .. (MAX_TOUCH_INPUTS - 1)}

\* What getButtonState / isJoystickActive / getJoystickState return on
\* gamepad g for the element at position b / j.
ButtonStateOf(g, b) == GetButtonStateOp(g, ToUnsigned(b)).out.value
JoystickActiveOf(g, j) == IsJoystickActiveOp(g, ToUnsigned(j)).out.value
JoystickStateOf(g, j) == GetJoystickStateOp(g, ToUnsigned(j)).out.value

\* (x, y) lies inside region r, edges included, as the claim words it.
InsideRegion(r, x, y) ==
    /\ r.x <= x /\ x <= r.x + r.width
    /\ r.y <= y /\ y <= r.y + r.height

(* C1: a TOUCH_PRESS by a contact c < MAX_TOUCH_INPUTS at a point inside the
   region of a button that is bound to no contact (edges included) leaves
   the button bound to c and getButtonState returning BUTTON_PRESSED; a
   TOUCH_PRESS outside the region leaves an unbound button unbound and
   BUTTON_RELEASED.  The region of a button no call gave one is the
   rectangle the memory holds, and the press finds the point inside it or
   outside it. *)
C1_PressBindsButton ==
    \A b \in ButtonIds, c \in ValidContacts :
      \A gb \in ButtonsGarbage(Gamepad, TOUCH_PRESS, c),
         gj \in JoysticksGarbage(Gamepad, TOUCH_PRESS, c) :
       \A x \in Coords, y \in Coords :
        LET after == TouchOp(Gamepad, x, y, TOUCH_PRESS, c, gb, gj).g
            inside == IF buttons[b].region = Uninit
                      THEN gb[b]
                      ELSE InsideRegion(buttons[b].region, x, y)
        IN  buttons[b].contactIndex = INVALID_CONTACT_INDEX =>
              IF inside
              THEN /\ after.buttons[b].contactIndex = c
                   /\ ButtonStateOf(after, b) = BUTTON_PRESSED
              ELSE /\ after.buttons[b].contactIndex = INVALID_CONTACT_INDEX
                   /\ ButtonStateOf(after, b) = BUTTON_RELEASED

\* A button with an assigned region that a press has bound to a contact,
\* read by getButtonState.
C1_Witness ==
    \E b \in ButtonIds :
        /\ buttons[b].region \in BoundsArgs \ {NULL}
        /\ buttons[b].contactIndex \in ValidContacts
        /\ buttons[b].pressed = BUTTON_PRESSED
        /\ out = [kind |-> "ButtonState", value |-> BUTTON_PRESSED]

(* C2: a button bound to contact c is BUTTON_PRESSED and stays pressed and
   bound to c through every call but a TOUCH_RELEASE of c (touch events of
   other contacts, presses and moves of c anywhere, setButton, draw and the
   getters); a TOUCH_RELEASE of c leaves it BUTTON_RELEASED and bound to no
   contact, after which a press inside its region binds it again. *)
C2_BoundUntilRelease ==
    \A b \in ButtonIds :
        LET c == buttons[b].contactIndex
            held(g) == /\ g.buttons[b].contactIndex = c
                       /\ ButtonStateOf(g, b) = BUTTON_PRESSED
            free(g) == /\ g.buttons[b].contactIndex = INVALID_CONTACT_INDEX
                       /\ ButtonStateOf(g, b) = BUTTON_RELEASED
        IN  c # INVALID_CONTACT_INDEX =>
              /\ c \in ValidContacts
              /\ held(Gamepad)
              /\ \A e \in TouchEvents, c2 \in ContactIndices :
                  \A gb \in ButtonsGarbage(Gamepad, e, c2),
                     gj \in JoysticksGarbage(Gamepad, e, c2) :
                   \A x \in Coords, y \in Coords :
                     LET after == TouchOp(Gamepad, x, y, e, c2, gb, gj).g
                     IN  IF e = TOUCH_RELEASE /\ c2 = c
                         THEN /\ free(after)
                              /\ \A c3 \in ValidContacts :
                                  \A gb2 \in ButtonsGarbage(after, TOUCH_PRESS, c3),
                                     gj2 \in JoysticksGarbage(after, TOUCH_PRESS, c3) :
                                    LET inside == IF buttons[b].region = Uninit
                                                  THEN gb2[b]
                                                  ELSE InsideRegion(buttons[b].region, x, y)
                                        again == TouchOp(after, x, y, TOUCH_PRESS, c3,
                                                         gb2, gj2).g
                                    IN  inside =>
                                          /\ again.buttons[b].contactIndex = c3
                                          /\ ButtonStateOf(again, b) = BUTTON_PRESSED
                         ELSE held(after)
              /\ \A id \in ButtonIndexArgs, r \in BoundsArgs, d \in TextureArgs,
                    f \in TextureArgs :
                     held(SetButtonOp(Gamepad, id, r, d, f).g)
              /\ \A id \in JoystickIndexArgs, ri \in InnerArgs, ro \in OuterArgs,
                    r \in Radii :
                     held(SetJoystickOp(Gamepad, id, ri, NULL, ro, NULL, r).g)
              /\ held(DrawOp(Gamepad).g)

\* A button with both textures that the second contact holds, drawn with
\* its focus sprite: calls have been made since the button was bound.
C2_Witness ==
    \E b \in ButtonIds :
        /\ buttons[b].contactIndex = ToUnsigned(MAX_TOUCH_INPUTS - 1)
        /\ buttons[b].pressed = BUTTON_PRESSED
        /\ buttons[b].region # Uninit
        /\ out.kind = "sprites"
        /\ out.buttons[b] # <<>>

\* The outer joggle as draw places it: the rectangle of the outer region's
\* size centred on the outer region's position.
InsideOuterJoggle(regionOuter, x, y) ==
    LET p == JogglePosition(regionOuter)
    IN  /\ p.x2 <= 2 * x /\ 2 * x <= p.x2 + 2 * regionOuter.width
        /\ p.y2 <= 2 * y /\ 2 * y <= p.y2 + 2 * regionOuter.height

(* C3: a TOUCH_PRESS makes a joystick active (isJoystickActive) only when
   the touch point lies inside the joystick's outer joggle: inside the
   outer region given to setJoystick, be it taken as draw places the joggle
   (centred on the region's position) or as the rectangle that starts
   there.  A step that makes a joystick active is a TOUCH_PRESS, which
   leaves in _displacement the touch point's offset from the inner
   region's position. *)
C3_PressOnlyInsideOuterJoggle ==
    [][ \A j \in JoystickIds :
          ( /\ joysticks[j].regionOuter # Uninit
            /\ joysticks[j].regionInner # Uninit
            /\ ~JoystickActiveOf(Gamepad, j)
            /\ joysticks'[j].contactIndex # INVALID_CONTACT_INDEX )
          => LET x == joysticks[j].regionInner.x + joysticks'[j].displacement.x
                 y == joysticks[j].regionInner.y + joysticks'[j].displacement.y
             IN  \/ InsideOuterJoggle(joysticks[j].regionOuter, x, y)
                 \/ InsideRegion(joysticks[j].regionOuter, x, y) ]_vars

\* dx*dx + dy*dy <= radius*radius for the displacement w.
DisplacementWithin(w, radius) ==
    CASE w.kind = "vec" -> w.x * w.x + w.y * w.y <= radius * radius * w.d * w.d
      [] w.kind = "tinyvec" -> TRUE
      [] w.kind = "somevec" -> w.n * w.n <= radius * radius * w.d * w.d
      [] OTHER -> FALSE

\* v is the vector w / den.
IsQuotient(v, w, den) ==
    /\ den # 0
    /\ v.kind = w.kind
    /\ CASE w.kind = "vec" -> /\ v.x * den * w.d = w.x * v.d
                              /\ v.y * den * w.d = w.y * v.d
         [] w.kind = "tinyvec" -> TRUE
         [] w.kind = "somevec" -> /\ den > 0
                                  /\ v.m * den * w.d = w.m * v.d
                                  /\ v.n * den * w.d = w.n * v.d
         [] OTHER -> FALSE

\* v is the vector of length len along w; for len = 0 or w = 0, the zero vector.
IsAlong(v, w, len) ==
    IF len = 0 \/ IsZeroVec(w)
    THEN len = 0 /\ IsZeroVec(v)
    ELSE CASE w.kind = "vec" -> /\ v.kind = "ray"
                                /\ v.n = len * v.d
                                /\ v.x * w.y = v.y * w.x
                                /\ v.x * w.x >= 0
                                /\ v.y * w.y >= 0
           [] w.kind \in {"somevec", "farvec"} -> /\ v.kind = "someray"
                                                  /\ v.n = len * v.d
           [] OTHER -> FALSE

\* (w.x, -w.y), written out; a class of vectors holds its mirror images.
Mirrored(w) == IF w.kind \in {"vec", "ray"} THEN [w EXCEPT !.y = 0 - w.y] ELSE w

(* C4: for every joystick a finger is on, whatever radius was set, the
   direction getJoystickState returns has length at most 1; with (dx, dy)
   the displacement of the finger from the inner region's position (a
   region setJoystick has assigned), it is
   (dx / radius, -dy / radius) when dx*dx + dy*dy <= radius*radius and the
   unit vector along (dx, -dy) when the finger is beyond the radius. *)
C4_DirectionClamped ==
    \A j \in JoystickIds :
        LET dir == JoystickStateOf(Gamepad, j)
            displacement == joysticks[j].displacement
            radius == joysticks[j].radius
        IN  (JoystickActiveOf(Gamepad, j) /\ joysticks[j].regionInner # Uninit) =>
              /\ LengthAtMostOne(dir)
              /\ IF DisplacementWithin(displacement, radius)
                 THEN IsQuotient(dir, Mirrored(displacement), radius)
                 ELSE IsAlong(dir, Mirrored(displacement), 1)

(* C5: a TOUCH_RELEASE of the contact that holds a joystick leaves it
   inactive (isJoystickActive false) with displacement (0, 0) and direction
   (getJoystickState) (0, 0); and in every reachable state a joystick that
   is not active has displacement (0, 0) and direction (0, 0). *)
C5_ReleaseResetsJoystick ==
    \A j \in JoystickIds :
        /\ ~JoystickActiveOf(Gamepad, j) =>
              /\ IsZeroVec(joysticks[j].displacement)
              /\ IsZeroVec(JoystickStateOf(Gamepad, j))
        /\ JoystickActiveOf(Gamepad, j) =>
              \A gb \in ButtonsGarbage(Gamepad, TOUCH_RELEASE, joysticks[j].contactIndex),
                 gj \in JoysticksGarbage(Gamepad, TOUCH_RELEASE, joysticks[j].contactIndex) :
                \A x \in Coords, y \in Coords :
                  LET after == TouchOp(Gamepad, x, y, TOUCH_RELEASE,
                                       joysticks[j].contactIndex, gb, gj).g
                  IN  /\ ~JoystickActiveOf(after, j)
                      /\ IsZeroVec(after.joysticks[j].displacement)
                      /\ IsZeroVec(JoystickStateOf(after, j))

\* A joystick a finger holds away from the centre, with a direction that is
\* not zero: the state a release resets.
C5_Witness ==
    \E j \in JoystickIds :
        /\ joysticks[j].contactIndex \in ValidContacts
        /\ ~IsZeroVec(joysticks[j].displacement)
        /\ joysticks[j].direction.kind \in {"vec", "ray"}
        /\ ~IsZeroVec(joysticks[j].direction)

\* The components of a Vector2 as numbers with a sign; a NaN has none.
HasSigns(v) == v.kind \in {"vec", "ray"}
Sign(n) == IF n > 0 THEN 1 ELSE IF n < 0 THEN -1 ELSE 0
XSign(v) == Sign(v.x)
YNonNegative(v) == HasSigns(v) /\ v.y >= 0
YNonPositive(v) == HasSigns(v) /\ v.y <= 0

(* C9: the direction's y axis is positive up.  After every TOUCH_PRESS or
   TOUCH_MOVE that updates a joystick (the joystick is then held by the
   event's contact) whose inner region setJoystick has assigned, a touch
   point above the inner region's position (smaller y) gives
   getJoystickState().y >= 0 and one below it gives y <= 0, and the
   direction's x has the sign of the x displacement: within the radius and
   beyond it. *)
C9_YPositiveUp ==
    \A j \in JoystickIds, e \in {TOUCH_PRESS, TOUCH_MOVE}, c \in ValidContacts :
      \A gb \in ButtonsGarbage(Gamepad, e, c), gj \in JoysticksGarbage(Gamepad, e, c) :
       \A x \in Coords, y \in Coords :
        LET after == TouchOp(Gamepad, x, y, e, c, gb, gj).g
            inner == joysticks[j].regionInner
            dx == x - inner.x
            dy == y - inner.y
            dir == JoystickStateOf(after, j)
        IN  (inner # Uninit /\ after.joysticks[j].contactIndex = c) =>
              /\ dy < 0 => YNonNegative(dir)
              /\ dy > 0 => YNonPositive(dir)
              /\ dx # 0 => (HasSigns(dir) /\ XSign(dir) = Sign(dx))

\* Texture coordinates within the texture: u in [0, 1] and v in [0, 1].
InTexture(tc) ==
    /\ 0 <= tc.u1 /\ tc.u1 <= TexW
    /\ 0 <= tc.u2 /\ tc.u2 <= TexW
    /\ 0 <= tc.v1 /\ tc.v1 <= TexH
    /\ 0 <= tc.v2 /\ tc.v2 <= TexH

\* u1 = x/tw, v1 = 1 - y/th, u2 = u1 + width/tw, v2 = v1 - height/th.
IsTexCoordOf(tc, r) ==
    /\ tc.u1 = r.x
    /\ tc.v1 = TexH - r.y
    /\ tc.u2 = tc.u1 + r.width
    /\ tc.v2 = tc.v1 - r.height

(* C6: the texture coordinates setButton and setJoystick store for a texture
   region are u1 = x/tw, v1 = 1 - y/th, u2 = u1 + width/tw,
   v2 = v1 - height/th, and in every reachable state each stored u1, u2, v1,
   v2 is in [0, 1]. *)
C6_TexCoordsWithinTexture ==
    /\ \A b \in ButtonIds, r \in TextureArgs \ {NULL} :
          /\ IsTexCoordOf(SetButtonOp(Gamepad, ToUnsigned(b), NULL, r, NULL)
                            .g.buttons[b].defaultTexCoord, r)
          /\ IsTexCoordOf(SetButtonOp(Gamepad, ToUnsigned(b), NULL, NULL, r)
                            .g.buttons[b].focusTexCoord, r)
    /\ \A b \in ButtonIds :
          /\ buttons[b].defaultTextureEnabled => InTexture(buttons[b].defaultTexCoord)
          /\ buttons[b].focusTextureEnabled => InTexture(buttons[b].focusTexCoord)
    /\ \A j \in JoystickIds :
          /\ joysticks[j].defaultTextureInnerEnabled =>
                InTexture(joysticks[j].defaultTexCoordInner)
          /\ joysticks[j].defaultTextureOuterEnabled =>
                InTexture(joysticks[j].defaultTexCoordOuter)

(* C7: in every draw call, for every joystick whose inner texture is
   enabled, the inner joggle is centred on the inner region's position plus
   the displacement when the displacement lies within the radius, and
   otherwise on the point of the circle of that radius the displacement
   vector points at; so its centre is never farther than radius from the
   inner region's position. *)
C7_InnerJoggleWithinRadius ==
    out.kind = "sprites" =>
      \A j \in JoystickIds :
          LET sprite == out.inner[j]
              inner == joysticks[j].regionInner
              displacement == joysticks[j].displacement
              radius == joysticks[j].radius
          IN  joysticks[j].defaultTextureInnerEnabled =>
                /\ sprite # NoSprite
                /\ inner # Uninit =>
                      /\ sprite.x2 + sprite.width = 2 * inner.x
                      /\ sprite.y2 + sprite.height = 2 * inner.y
                /\ IF DisplacementWithin(displacement, radius)
                   THEN IsQuotient(sprite.off, displacement, 1)
                   ELSE IsAlong(sprite.off, displacement, radius)
                /\ LengthAtMost(sprite.off, radius)

(* C8: in every draw call each button emits at most one sprite: the focus
   sprite when it is BUTTON_PRESSED and its focus texture is enabled,
   otherwise the default sprite when its default texture is enabled,
   otherwise nothing; and draw changes no button or joystick state. *)
C8_ButtonSprite ==
    /\ DrawOp(Gamepad).g = Gamepad
    /\ out.kind = "sprites" =>
          \A b \in ButtonIds :
              LET sprites == out.buttons[b]
                  at(region, s) == region # Uninit =>
                                     /\ s.x2 = 2 * region.x /\ s.y2 = 2 * region.y
                                     /\ s.width = region.width /\ s.height = region.height
              IN  /\ Len(sprites) <= 1
                  /\ IF ButtonStateOf(Gamepad, b) = BUTTON_PRESSED
                        /\ buttons[b].focusTextureEnabled
                     THEN /\ Len(sprites) = 1
                          /\ sprites[1].tex = buttons[b].focusTexCoord
                          /\ at(buttons[b].region, sprites[1])
                     ELSE IF buttons[b].defaultTextureEnabled
                     THEN /\ Len(sprites) = 1
                          /\ sprites[1].tex = buttons[b].defaultTexCoord
                          /\ at(buttons[b].region, sprites[1])
                     ELSE sprites = <<>>

\* A draw of a pressed button that has both textures, with different
\* texture coordinates: the focus sprite is the one drawn.
C8_Witness ==
    /\ out.kind = "sprites"
    /\ \E b \in ButtonIds :
          /\ buttons[b].pressed = BUTTON_PRESSED
          /\ buttons[b].focusTextureEnabled
          /\ buttons[b].defaultTextureEnabled
          /\ buttons[b].focusTexCoord # buttons[b].defaultTexCoord
          /\ out.buttons[b] # <<>>
          /\ out.buttons[b][1].tex = buttons[b].focusTexCoord

\* An outcome that stays within the arrays of the gamepad.
WithinArrays(o) ==
    /\ o.out # AssertFailed
    /\ o.accessed.b \subseteq {ToUnsigned(i) : i \in ButtonIds}
    /\ o.accessed.j \subseteq {ToUnsigned(i) : i \in JoystickIds}

\* Indices in range and out of range: up to one beyond the first index out
\* of range, the first value beyond 16 bits and the largest unsigned int.
AnyButtonIndex ==
    {ToUnsigned(n) : n \in 0 .. (ButtonCount + 1)}
      \cup {ToUnsigned(LimbModulus), INVALID_CONTACT_INDEX}
AnyJoystickIndex ==
    {ToUnsigned(n) : n \in 0 .. (JoystickCount + 1)}
      \cup {ToUnsigned(LimbModulus), INVALID_CONTACT_INDEX}

(* C10: setButton and getButtonState assert index < button count, and
   setJoystick, isJoystickActive and getJoystickState assert index <
   joystick count: a call with an index out of range ends in the failed
   assertion with no button or joystick read or written, and every call
   that passes its assertion, and every loop of touch and draw, accesses
   only elements with an index below the count given to the constructor. *)
C10_IndexAsserted ==
    /\ \A id \in AnyButtonIndex :
          /\ \A r \in BoundsArgs, d \in TextureArgs, f \in TextureArgs :
                IF id \in {ToUnsigned(i) : i \in 0 .. (ButtonCount - 1)}
                THEN WithinArrays(SetButtonOp(Gamepad, id, r, d, f))
                ELSE SetButtonOp(Gamepad, id, r, d, f) = Aborted(Gamepad)
          /\ IF id \in {ToUnsigned(i) : i \in 0 .. (ButtonCount - 1)}
             THEN WithinArrays(GetButtonStateOp(Gamepad, id))
             ELSE GetButtonStateOp(Gamepad, id) = Aborted(Gamepad)
    /\ \A id \in AnyJoystickIndex :
          /\ \A ri \in InnerArgs, ro \in OuterArgs, t \in JoystickTextureArgs, r \in Radii :
                IF id \in {ToUnsigned(i) : i \in 0 .. (JoystickCount - 1)}
                THEN WithinArrays(SetJoystickOp(Gamepad, id, ri, t, ro, t, r))
                ELSE SetJoystickOp(Gamepad, id, ri, t, ro, t, r) = Aborted(Gamepad)
          /\ IF id \in {ToUnsigned(i) : i \in 0 .. (JoystickCount - 1)}
             THEN /\ WithinArrays(IsJoystickActiveOp(Gamepad, id))
                  /\ WithinArrays(GetJoystickStateOp(Gamepad, id))
             ELSE /\ IsJoystickActiveOp(Gamepad, id) = Aborted(Gamepad)
                  /\ GetJoystickStateOp(Gamepad, id) = Aborted(Gamepad)
    /\ \A e \in TouchEvents, c \in ContactIndices :
         \A gb \in ButtonsGarbage(Gamepad, e, c), gj \in JoysticksGarbage(Gamepad, e, c) :
           \A x \in Coords, y \in Coords :
             WithinArrays(TouchOp(Gamepad, x, y, e, c, gb, gj))
    /\ WithinArrays(DrawOp(Gamepad))
    /\ DOMAIN buttons = 0 .. (ButtonCount - 1)
    /\ DOMAIN joysticks = 0 .. (JoystickCount - 1)

\* A call with an index out of range has failed its assertion while a
\* button was held.
C10_Witness ==
    /\ out = AssertFailed
    /\ \E b \in ButtonIds : buttons[b].pressed = BUTTON_PRESSED

\* The unsigned int u is below the int n, 0 <= n.
BelowInt(u, n) == u.hi = 0 /\ u.lo < n

(* C11: in every reachable state getButtonState returns BUTTON_PRESSED for a
   button if and only if the button is bound to a contact (_contactIndex
   differs from INVALID_CONTACT_INDEX); every contact index bound to a
   button or to a joystick is below MAX_TOUCH_INPUTS; and a touch call with
   contactIndex >= MAX_TOUCH_INPUTS, INVALID_CONTACT_INDEX included, changes
   no button and no joystick, whatever the event and the point. *)
C11_PressedIffBound ==
    /\ \A b \in ButtonIds :
          /\ ButtonStateOf(Gamepad, b) = BUTTON_PRESSED
                <=> buttons[b].contactIndex # INVALID_CONTACT_INDEX
          /\ ButtonStateOf(Gamepad, b) \in {BUTTON_PRESSED, BUTTON_RELEASED}
          /\ buttons[b].contactIndex # INVALID_CONTACT_INDEX =>
                BelowInt(buttons[b].contactIndex, MAX_TOUCH_INPUTS)
    /\ \A j \in JoystickIds :
          joysticks[j].contactIndex # INVALID_CONTACT_INDEX =>
                BelowInt(joysticks[j].contactIndex, MAX_TOUCH_INPUTS)
    /\ \A e \in TouchEvents, c \in ContactIndices :
         ~BelowInt(c, MAX_TOUCH_INPUTS) =>
           \A gb \in ButtonsGarbage(Gamepad, e, c), gj \in JoysticksGarbage(Gamepad, e, c) :
             \A x \in Coords, y \in Coords :
               TouchOp(Gamepad, x, y, e, c, gb, gj).g = Gamepad

\* A button bound to the largest contact index touch accepts, next to a
\* joystick bound to no contact and with an assigned inner region: a
\* TOUCH_MOVE or TOUCH_RELEASE of INVALID_CONTACT_INDEX would match the
\* joystick's _contactIndex if touch did not return first.
C11_Witness ==
    /\ \E b \in ButtonIds :
          /\ buttons[b].region # Uninit
          /\ buttons[b].contactIndex = ToUnsigned(MAX_TOUCH_INPUTS - 1)
          /\ buttons[b].pressed = BUTTON_PRESSED
    /\ \E j \in JoystickIds :
          /\ joysticks[j].contactIndex = INVALID_CONTACT_INDEX
          /\ joysticks[j].regionInner # Uninit

====
